---- MODULE Spec2Model ----
(***************************************************************************)
(* Model of matrun.py: the MatlabRunner class, which validates and merges  *)
(* command line flags, composes the matlab.exe command line and hands it   *)
(* to subprocess.call.                                                      *)
(*                                                                         *)
(* A Python dict is modelled as the sequence of its <<key, value>> items   *)
(* in insertion order, a Python value as a record tagged with its type, a  *)
(* raised exception as a record holding the message's constant text and    *)
(* the values interpolated into it.                                        *)
(***************************************************************************)
EXTENDS Integers, Sequences, FiniteSets, TLC

VARIABLES
    pc,         \* "new" before MatlabRunner(...) has returned, "ready" after
    exe_path,   \* self._exe_path
    options,    \* self._options, items in insertion order
    files,      \* the paths for which os.path.isfile is true
    op,         \* the last call made on the runner, with its arguments
    err,        \* the exception that call raised, NoErr when it returned
    ret,        \* what that call returned
    called      \* the subprocess.call invocations made during that call

vars == <<pc, exe_path, options, files, op, err, ret, called>>

-----------------------------------------------------------------------------
(* Python values *)

BoolV(b)  == [t |-> "bool", b |-> b]
StrV(s)   == [t |-> "str", s |-> s]
IntV(n)   == [t |-> "int", n |-> n]
\* a float with one decimal digit, held as its number of tenths
FloatV(n) == [t |-> "float", tenths |-> n]
NoneV     == [t |-> "NoneType"]
ListV(l)  == [t |-> "list", l |-> l]

NoErr == [type |-> "none"]

Raise(e)  == [err |-> e, ret |-> NoneV]
Return(v) == [err |-> NoErr, ret |-> v]

-----------------------------------------------------------------------------
(* dict, str.join, str.format and number formatting *)

Keys(d)   == [i \in 1..Len(d) |-> d[i][1]]
KeySet(d) == {d[i][1] : i \in 1..Len(d)}
Get(d, k) == d[CHOOSE i \in 1..Len(d) : d[i][1] = k][2]

\* d[k] = v: an existing key keeps its position, a new key goes last
DictSet(d, k, v) ==
    IF k \in KeySet(d)
    THEN [i \in 1..Len(d) |-> IF d[i][1] = k THEN <<k, v>> ELSE d[i]]
    ELSE Append(d, <<k, v>>)

RECURSIVE DictUpdate(_, _)
\* {**d, **e}
DictUpdate(d, e) ==
    IF e = <<>> THEN d
    ELSE DictUpdate(DictSet(d, e[1][1], e[1][2]), Tail(e))

RECURSIVE Join(_, _)
\* sep.join(parts)
Join(sep, parts) ==
    IF parts = <<>> THEN ""
    ELSE IF Len(parts) = 1 THEN parts[1]
    ELSE parts[1] \o sep \o Join(sep, Tail(parts))

Hole == [hole |-> TRUE]

RECURSIVE Format(_, _)
\* template.format(arg): the template is its literal pieces with Hole for {}
Format(template, arg) ==
    IF template = <<>> THEN ""
    ELSE (IF template[1] = Hole THEN arg ELSE template[1].lit)
         \o Format(Tail(template), arg)

Lit(s) == [lit |-> s]

Digit == <<"0", "1", "2", "3", "4", "5", "6", "7", "8", "9">>

RECURSIVE NatStr(_)
NatStr(n) ==
    IF n < 10 THEN Digit[n + 1]
    ELSE NatStr(n \div 10) \o Digit[(n % 10) + 1]

\* str(n) for an int
IntStr(n) == IF n < 0 THEN "-" \o NatStr(-n) ELSE NatStr(n)

\* str(x) for a float of one decimal digit
FloatStr(n) ==
    LET a == IF n < 0 THEN -n ELSE n
    IN  (IF n < 0 THEN "-" ELSE "")
        \o NatStr(a \div 10) \o "." \o Digit[(a % 10) + 1]

-----------------------------------------------------------------------------
(* module level data *)

option_defaults ==
    << <<"nodesktop", BoolV(FALSE)>>,
       <<"noFigureWindows", BoolV(FALSE)>>,
       <<"nosplash", BoolV(FALSE)>>,
       <<"sd", BoolV(FALSE)>>,
       <<"useStartupFolderPref", BoolV(FALSE)>>,
       <<"logfile", BoolV(FALSE)>>,
       <<"jbd", BoolV(FALSE)>>,
       <<"singleCompThread", BoolV(FALSE)>>,
       <<"nouserjavapath", BoolV(FALSE)>>,
       <<"softwareopengl", BoolV(FALSE)>>,
       <<"nosoftwareopengl", BoolV(FALSE)>>,
       <<"automation", BoolV(FALSE)>>,
       <<"regserver", BoolV(FALSE)>>,
       <<"unregserver", BoolV(FALSE)>>,
       <<"wait", BoolV(FALSE)>> >>

try_catch_wrapper ==
    << Lit("try, "), Hole,
       Lit(", catch err, fprintf('%s %s', err.identifier, err.message), end") >>

exit_wrapper == << Hole, Lit(", exit") >>

-----------------------------------------------------------------------------
(* the exceptions the module raises *)

\* ValueError(f"Key {k} is not a valid matlab.exe flag.Valid flags are {...}")
KeyError(k) ==
    [type |-> "ValueError",
     text |-> "Key {} is not a valid matlab.exe flag.Valid flags are {}",
     names |-> <<k>>,
     valid |-> Keys(option_defaults)]

\* ValueError(f"Value for Key {k} is not a number or a string")
ValueTypeError(k) ==
    [type |-> "ValueError",
     text |-> "Value for Key {} is not a number or a string",
     names |-> <<k>>,
     valid |-> <<>>]

\* ValueError(f'Invalid options: {list(invalid_options)}')
InvalidOptionsError(listed) ==
    [type |-> "ValueError",
     text |-> "Invalid options: {}",
     names |-> listed,
     valid |-> <<>>]

\* FileExistsError(f"MATLAB executable at {self._exe_path} does not exist")
ExeMissingError(path) ==
    [type |-> "FileExistsError",
     text |-> "MATLAB executable at {} does not exist",
     names |-> <<path>>,
     valid |-> <<>>]

-----------------------------------------------------------------------------
(* MatlabRunner: command line construction *)

\* variant: tests the value's truthiness instead of its identity with False
build_options_parameter_truthy(k, v) ==
    IF k \notin KeySet(option_defaults) THEN Raise(KeyError(k))
    ELSE IF v = BoolV(TRUE) THEN Return(StrV("-" \o k))
    ELSE IF v \in {BoolV(FALSE), IntV(0), FloatV(0), StrV(""), NoneV}
         THEN Return(NoneV)
    ELSE IF v.t = "str" THEN Return(StrV("-" \o k \o " \"" \o v.s \o "\""))
    ELSE IF v.t = "int" THEN Return(StrV("-" \o k \o " " \o IntStr(v.n)))
    ELSE IF v.t = "float"
         THEN Return(StrV("-" \o k \o " " \o FloatStr(v.tenths)))
    ELSE Raise(ValueTypeError(k))

\* MatlabRunner._build_options_parameter(k, v)
build_options_parameter(k, v) ==
    IF k \notin KeySet(option_defaults) THEN Raise(KeyError(k))
    ELSE IF v = BoolV(TRUE) THEN Return(StrV("-" \o k))
    ELSE IF v = BoolV(FALSE) THEN Return(NoneV)
    ELSE IF v.t = "str" THEN Return(StrV("-" \o k \o " \"" \o v.s \o "\""))
    ELSE IF v.t = "int" THEN Return(StrV("-" \o k \o " " \o IntStr(v.n)))
    ELSE IF v.t = "float"
         THEN Return(StrV("-" \o k \o " " \o FloatStr(v.tenths)))
    ELSE Raise(ValueTypeError(k))

\* the list comprehension of _build_options_string: one outcome per item
ParamOutcomes(opts) ==
    [i \in 1..Len(opts) |-> build_options_parameter(opts[i][1], opts[i][2])]

RECURSIVE NotNone(_)
\* the generator's filter: the returned strings that are not None, in order
NotNone(outs) ==
    IF outs = <<>> THEN <<>>
    ELSE (IF outs[1].ret = NoneV THEN <<>> ELSE <<outs[1].ret.s>>)
         \o NotNone(Tail(outs))

\* MatlabRunner._build_options_string(): the first item that raises ends it
build_options_string(opts) ==
    LET outs == ParamOutcomes(opts)
        bad  == {i \in 1..Len(outs) : outs[i].err # NoErr}
    IN  IF bad # {}
        THEN Raise(outs[CHOOSE i \in bad : \A j \in bad : i <= j].err)
        ELSE Return(StrV(Join(" ", NotNone(outs))))

\* MatlabRunner._build_command_header()
build_command_header(path, opts) ==
    LET o == build_options_string(opts)
    IN  IF o.err # NoErr THEN o
        ELSE Return(StrV(path \o " " \o o.ret.s))

-----------------------------------------------------------------------------
(* MatlabRunner: option management *)

\* the orders in which list(a_set) can enumerate the set
Listings(S) ==
    {l \in [1..Cardinality(S) -> S] :
        \A i, j \in 1..Cardinality(S) : i # j => l[i] # l[j]}

\* variant: stops at the first unrecognised keyword
invalid_options_first(kw) ==
    LET bad == {i \in 1..Len(kw) : kw[i][1] \notin KeySet(option_defaults)}
    IN  IF bad = {} THEN {}
        ELSE {kw[CHOOSE i \in bad : \A j \in bad : i <= j][1]}

\* variant: no validation of the keywords
invalid_options_none(kw) == {}

\* set(options.keys()) - set(option_defaults.keys())
invalid_options(kw) == KeySet(kw) \ KeySet(option_defaults)

\* variant: the new options replace the stored ones
merged_options_replace(cur, kw) == DictUpdate(option_defaults, kw)

\* variant: the defaults are not laid under the stored options
merged_options_no_defaults(cur, kw) == DictUpdate(cur, kw)

\* {**option_defaults, **self._options, **(options or {})}
merged_options(cur, kw) ==
    DictUpdate(DictUpdate(option_defaults, cur), kw)

\* variant: the recognised keywords are stored before the error is raised
options_after_set_partial(cur, kw) ==
    merged_options(cur, SelectSeq(kw, LAMBDA it : it[1] \in KeySet(option_defaults)))

\* self._options after set_options(**kw) on a runner holding cur
options_after_set(cur, kw) ==
    IF invalid_options(kw) # {} THEN cur ELSE merged_options(cur, kw)

\* variant: the message also lists the valid flags
set_options_error_with_valid(listed) ==
    [InvalidOptionsError(listed) EXCEPT !.valid = Keys(option_defaults)]

\* the exception set_options raises, listed being list(invalid_options)
set_options_error(listed) == InvalidOptionsError(listed)

-----------------------------------------------------------------------------
(* MatlabRunner: execution *)

\* variant: the existence check always passes
isfile_skipped(path, fs) == TRUE

\* os.path.isfile(self._exe_path)
isfile(path, fs) == path \in fs

\* the run mode flag
run_option(batch) == IF batch THEN "-batch" ELSE "-r"

\* isinstance(statement, Iterable) and not isinstance(statement, str)
flatten(statement) ==
    IF statement.t = "list" THEN Join(", ", statement.l) ELSE statement.s

\* variant: the exit is appended before the try-catch is wrapped around
wrap_statement_exit_first(s, try_catch, auto_exit) ==
    LET s1 == IF auto_exit THEN Format(exit_wrapper, s) ELSE s
    IN  IF try_catch THEN Format(try_catch_wrapper, s1) ELSE s1

\* the two optional wrappers of execute, applied to the flattened statement
wrap_statement(s, try_catch, auto_exit) ==
    LET s1 == IF try_catch THEN Format(try_catch_wrapper, s) ELSE s
    IN  IF auto_exit THEN Format(exit_wrapper, s1) ELSE s1

\* variant: the statement is not quoted
compose_command_unquoted(header, mode, s) ==
    header \o " " \o mode \o " " \o s

\* f'{header} {run_option} "{statement}"'
compose_command(header, mode, s) ==
    header \o " " \o mode \o " \"" \o s \o "\""

\* MatlabRunner.execute: the exception raised and the subprocess.call made
execute(path, opts, fs, statement, batch, try_catch, auto_exit, kwargs) ==
    IF ~isfile(path, fs)
    THEN [err |-> ExeMissingError(path), called |-> <<>>]
    ELSE LET header == build_command_header(path, opts)
         IN  IF header.err # NoErr
             THEN [err |-> header.err, called |-> <<>>]
             ELSE LET s == wrap_statement(flatten(statement), try_catch, auto_exit)
                      command == compose_command(header.ret.s, run_option(batch), s)
                  IN  [err |-> NoErr,
                       called |-> <<[command |-> command, kwargs |-> kwargs]>>]

-----------------------------------------------------------------------------
(* the calls explored *)

\* the most keyword arguments passed in one set_options or constructor call
MaxKw == 2

\* the keyword arguments tried: two registry flags, one switched on and off,
\* one given a string, a number or None (a value of an unsupported type),
\* and two unknown names
KwItems ==
    ({"nodesktop"} \X {BoolV(TRUE), BoolV(FALSE)})
    \cup ({"sd"} \X {StrV("/work"), IntV(5), NoneV})
    \cup {<<"foo", BoolV(TRUE)>>, <<"bar", StrV("x")>>}

\* **options: at most MaxKw items, no keyword twice, in the order written
KwArgs ==
    UNION {{kw \in [1..n -> KwItems] :
                \A i, j \in 1..n : i # j => kw[i][1] # kw[j][1]} : n \in 0..MaxKw}

Paths == {"/bin/tool", "C:/matlab.exe"}

\* the one path at which an executable gets installed and removed
Installable == "/bin/tool"

Statements == {StrV("x"), StrV("run"), ListV(<<"a=1", "b">>)}

\* **subprocess_kwargs
SubprocessKwargs == {<<>>, << <<"cwd", StrV("/work")>> >>}

ParamKeys == {"nodesktop", "sd", "wait", "foo"}

ParamValues ==
    {BoolV(TRUE), BoolV(FALSE), StrV("/work"), StrV(""), StrV("a\"b"),
     IntV(0), IntV(5), IntV(12), IntV(-3),
     FloatV(15), FloatV(0), FloatV(-25), FloatV(120),
     NoneV, ListV(<<"x">>)}

\* the stored options the options string is built from
ParamStored ==
    {option_defaults, DictSet(option_defaults, "nodesktop", BoolV(TRUE))}

-----------------------------------------------------------------------------
(* the state machine *)

Init ==
    /\ pc = "new"
    /\ exe_path = ""
    /\ options = <<>>
    /\ files = {}
    /\ op = [name |-> "none"]
    /\ err = NoErr
    /\ ret = NoneV
    /\ called = <<>>

\* MatlabRunner(path, **kw); when set_options raises no runner comes to exist
Construct(path, kw) ==
    /\ pc = "new"
    /\ op' = [name |-> "__init__", exe_path |-> path, kw |-> kw]
    /\ IF invalid_options(kw) # {}
       THEN /\ \E listed \in Listings(invalid_options(kw)) :
                   err' = set_options_error(listed)
            /\ UNCHANGED <<pc, exe_path, options>>
       ELSE /\ err' = NoErr
            /\ pc' = "ready"
            /\ exe_path' = path
            /\ options' = options_after_set(<<>>, kw)
    /\ ret' = NoneV
    /\ called' = <<>>
    /\ UNCHANGED files

\* runner.set_options(**kw)
SetOptions(kw) ==
    /\ pc = "ready"
    /\ op' = [name |-> "set_options", kw |-> kw]
    /\ IF invalid_options(kw) # {}
       THEN \E listed \in Listings(invalid_options(kw)) :
                err' = set_options_error(listed)
       ELSE err' = NoErr
    /\ options' = options_after_set(options, kw)
    /\ ret' = NoneV
    /\ called' = <<>>
    /\ UNCHANGED <<pc, exe_path, files>>

\* runner.set_exe_path(path)
SetExePath(path) ==
    /\ pc = "ready"
    /\ op' = [name |-> "set_exe_path", exe_path |-> path]
    /\ exe_path' = path
    /\ err' = NoErr
    /\ ret' = NoneV
    /\ called' = <<>>
    /\ UNCHANGED <<pc, options, files>>

\* runner.execute(statement, batch, try_catch, auto_exit, **kwargs)
Execute(statement, batch, try_catch, auto_exit, kwargs) ==
    /\ pc = "ready"
    /\ op' = [name |-> "execute", statement |-> statement, batch |-> batch,
              try_catch |-> try_catch, auto_exit |-> auto_exit,
              kwargs |-> kwargs]
    /\ \E out \in {execute(exe_path, options, files, statement, batch,
                           try_catch, auto_exit, kwargs)} :
           /\ err' = out.err
           /\ called' = out.called
    /\ ret' = NoneV
    /\ UNCHANGED <<pc, exe_path, options, files>>

\* the environment installs or removes the executable
FsChange ==
    /\ files' = (IF Installable \in files THEN files \ {Installable}
                 ELSE files \cup {Installable})
    /\ op' = [name |-> "fs"]
    /\ err' = NoErr
    /\ ret' = NoneV
    /\ called' = <<>>
    /\ UNCHANGED <<pc, exe_path, options>>

Next ==
    \/ \E path \in Paths, kw \in KwArgs : Construct(path, kw)
    \/ \E kw \in KwArgs : SetOptions(kw)
    \/ \E path \in Paths : SetExePath(path)
    \/ \E statement \in Statements, batch, try_catch, auto_exit \in BOOLEAN,
          kwargs \in SubprocessKwargs :
            Execute(statement, batch, try_catch, auto_exit, kwargs)
    \/ FsChange

Spec == Init /\ [][Next]_vars

-----------------------------------------------------------------------------
(* the flag builder on its own: a flag name and a value are picked, laid    *)
(* over a stored options mapping, and the token and the options string are *)
(* built from them                                                         *)

ParamInit ==
    /\ pc = "ready"
    /\ exe_path = "/bin/tool"
    /\ options \in ParamStored
    /\ files = {}
    /\ \E k \in ParamKeys, v \in ParamValues :
           op = [name |-> "pick", k |-> k, v |-> v]
    /\ err = NoErr
    /\ ret = NoneV
    /\ called = <<>>

\* MatlabRunner._build_options_parameter(k, v), a static method
BuildParam ==
    /\ op.name = "pick"
    /\ op' = [op EXCEPT !.name = "_build_options_parameter"]
    /\ \E out \in {build_options_parameter(op.k, op.v)} :
           /\ err' = out.err
           /\ ret' = out.ret
    /\ UNCHANGED <<pc, exe_path, options, files, called>>

\* self._options[k] = v behind set_options' back, then _build_options_string()
BuildString ==
    /\ op.name = "pick"
    /\ op' = [op EXCEPT !.name = "_build_options_string"]
    /\ options' = DictSet(options, op.k, op.v)
    /\ \E out \in {build_options_string(options')} :
           /\ err' = out.err
           /\ ret' = out.ret
    /\ UNCHANGED <<pc, exe_path, files, called>>

ParamNext == BuildParam \/ BuildString

ParamSpec == ParamInit /\ [][ParamNext]_vars

-----------------------------------------------------------------------------
(* vocabulary of the properties *)

Registry == KeySet(option_defaults)

\* the value a mapping holds for a flag, False when it holds none
Stored(d, k) == IF k \in KeySet(d) THEN Get(d, k) ELSE BoolV(FALSE)

IsSetCall(o) == o.name \in {"set_options", "__init__"}

Supplied(o) == KeySet(o.kw)

\* InvalidOption as set_options raises it
IsInvalidOption(e) == e.type = "ValueError" /\ e.text = "Invalid options: {}"

\* InvalidOption as the flag builder raises it
IsBuilderInvalidOption(e) ==
    /\ e.type = "ValueError"
    /\ e.text = "Key {} is not a valid matlab.exe flag.Valid flags are {}"

IsInvalidValue(e) ==
    /\ e.type = "ValueError"
    /\ e.text = "Value for Key {} is not a number or a string"

IsExecutableNotFound(e) == e.type = "FileExistsError"

Listed(e) == {e.names[i] : i \in 1..Len(e.names)}

\* the statements explored, flattened by hand
FlatText(statement) ==
    CASE statement = StrV("x") -> "x"
      [] statement = StrV("run") -> "run"
      [] statement = ListV(<<"a=1", "b">>) -> "a=1, b"

\* the numbers explored, written out by hand
NumberText(v) ==
    CASE v = IntV(0) -> "0"
      [] v = IntV(5) -> "5"
      [] v = IntV(12) -> "12"
      [] v = IntV(-3) -> "-3"
      [] v = FloatV(15) -> "1.5"
      [] v = FloatV(0) -> "0.0"
      [] v = FloatV(-25) -> "-2.5"
      [] v = FloatV(120) -> "12.0"

\* the tokens of the flag values a runner is given, written out by hand
TokenText(k, v) ==
    CASE v = BoolV(FALSE) -> <<>>
      [] k = "nodesktop" /\ v = BoolV(TRUE) -> <<"-nodesktop">>
      [] k = "sd" /\ v = StrV("/work") -> <<"-sd \"/work\"">>
      [] k = "sd" /\ v = IntV(5) -> <<"-sd 5">>

RECURSIVE TokensInOrder(_, _)
\* the tokens of mapping d for the flags names, in the order of names
TokensInOrder(names, d) ==
    IF names = <<>> THEN <<>>
    ELSE TokenText(names[1], Stored(d, names[1]))
         \o TokensInOrder(Tail(names), d)

RECURSIVE Spaced(_)
Spaced(tokens) ==
    IF tokens = <<>> THEN ""
    ELSE IF Len(tokens) = 1 THEN tokens[1]
    ELSE tokens[1] \o " " \o Spaced(Tail(tokens))

AllValuesSupported(d) ==
    \A i \in 1..Len(d) : d[i][2].t \in {"bool", "str", "int", "float"}

-----------------------------------------------------------------------------
(* C1 *)

\* C1: a set_options call (the constructor's included) given at least one
\* name outside the registry raises InvalidOption, and the names the error
\* lists are exactly the supplied names outside the registry, each once,
\* whatever valid names come with them.
C1_AllInvalidNamesReported ==
    (IsSetCall(op) /\ Supplied(op) \ Registry # {}) =>
        /\ IsInvalidOption(err)
        /\ Listed(err) = Supplied(op) \ Registry
        /\ Len(err.names) = Cardinality(Supplied(op) \ Registry)

C1_Witness ==
    /\ op.name = "set_options"
    /\ Supplied(op) = {"foo", "bar"}
    /\ Listed(err) = {"foo", "bar"}

-----------------------------------------------------------------------------
(* C2 *)

\* C2: a set_options call that succeeds leaves every registry flag at the
\* call's value when the call names it and at the value stored before the
\* call (False when never stored) otherwise.
C2_Cumulative ==
    [][(IsSetCall(op') /\ err' = NoErr) =>
          \A k \in Registry :
              Stored(options', k) =
                  IF k \in Supplied(op') THEN Get(op'.kw, k)
                  ELSE Stored(options, k)]_vars

\* a later call that names only nodesktop has kept the sd of an earlier call
C2_Witness ==
    /\ op.name = "set_options"
    /\ err = NoErr
    /\ Supplied(op) = {"nodesktop"}
    /\ Stored(options, "sd") = IntV(5)
    /\ Stored(options, "nodesktop") = BoolV(TRUE)

-----------------------------------------------------------------------------
(* C3 *)

\* C3: execute with a stored path that is no existing file raises
\* ExecutableNotFound and makes no subprocess call; with a stored path that
\* exists it does not raise it; the constructor, set_options and
\* set_exe_path never raise it, whatever the path.
C3_ExistenceCheckedAtExecute ==
    /\ (op.name = "execute" /\ exe_path \notin files) =>
           /\ err = ExeMissingError(exe_path)
           /\ called = <<>>
    /\ (op.name = "execute" /\ exe_path \in files) =>
           ~IsExecutableNotFound(err)
    /\ (IsSetCall(op) \/ op.name = "set_exe_path") =>
           ~IsExecutableNotFound(err)

\* the executable is installed at one path, the runner points at another
C3_Witness ==
    /\ op.name = "execute"
    /\ exe_path = "C:/matlab.exe"
    /\ files = {"/bin/tool"}
    /\ IsExecutableNotFound(err)
    /\ called = <<>>

-----------------------------------------------------------------------------
(* C4 *)

\* C4: the statement quoted at the end of the command is the flattened
\* statement s as it is with try_catch and auto_exit off, the try-catch
\* template around s with try_catch alone, "s, exit" with auto_exit alone,
\* and the try-catch template around s followed by ", exit" with both.
C4_FinalStatement ==
    (op.name = "execute" /\ called # <<>>) =>
        LET s == FlatText(op.statement)
            tc == "try, " \o s
                  \o ", catch err, fprintf('%s %s', err.identifier, err.message), end"
            final == CASE ~op.try_catch /\ ~op.auto_exit -> s
                       [] op.try_catch /\ ~op.auto_exit -> tc
                       [] ~op.try_catch /\ op.auto_exit -> s \o ", exit"
                       [] op.try_catch /\ op.auto_exit -> tc \o ", exit"
        IN  called[1].command =
                build_command_header(exe_path, options).ret.s
                \o " " \o (IF op.batch THEN "-batch" ELSE "-r")
                \o " \"" \o final \o "\""

C4_Witness ==
    /\ op.name = "execute"
    /\ op.statement = StrV("x")
    /\ op.try_catch
    /\ op.auto_exit
    /\ called # <<>>
    /\ called[1].command =
         "/bin/tool  -r \"try, x, catch err, fprintf('%s %s', err.identifier, err.message), end, exit\""

-----------------------------------------------------------------------------
(* C5 *)

\* C5: the options string of a runner is the tokens of its active flags in
\* the registry's declaration order, joined by single spaces, whatever the
\* order in which calls and keywords supplied them.
C5_RegistryOrder ==
    (pc = "ready" /\ AllValuesSupported(options)) =>
        build_options_string(options) =
            Return(StrV(Spaced(TokensInOrder(Keys(option_defaults), options))))

\* sd came first, nodesktop in a later call
C5_Witness ==
    /\ op.name = "set_options"
    /\ Supplied(op) = {"nodesktop"}
    /\ Stored(options, "sd") = StrV("/work")
    /\ build_options_string(options) = Return(StrV("-nodesktop -sd \"/work\""))

-----------------------------------------------------------------------------
(* C6 *)

\* C6: for a registry flag the builder returns no token for False, "-name"
\* for True, "-name "v"" with v verbatim for a string, "-name n" for an int
\* or a float, and raises InvalidValue naming the flag for any other value;
\* a flag stored as False adds nothing to the options string.
C6_FlagToken ==
    /\ (op.name = "_build_options_parameter" /\ op.k \in Registry) =>
          CASE op.v = BoolV(FALSE) -> err = NoErr /\ ret = NoneV
            [] op.v = BoolV(TRUE) -> err = NoErr /\ ret = StrV("-" \o op.k)
            [] op.v.t = "str" ->
                 err = NoErr /\ ret = StrV("-" \o op.k \o " \"" \o op.v.s \o "\"")
            [] op.v.t \in {"int", "float"} ->
                 err = NoErr /\ ret = StrV("-" \o op.k \o " " \o NumberText(op.v))
            [] OTHER -> IsInvalidValue(err) /\ err.names = <<op.k>>
    /\ (op.name = "_build_options_string" /\ op.k \in Registry
           /\ op.v = BoolV(FALSE)) =>
          /\ err = NoErr
          /\ ret = StrV(IF Stored(options, "nodesktop") = BoolV(TRUE)
                        THEN "-nodesktop" ELSE "")

\* a string with a quote in it is quoted as it is
C6_Witness ==
    /\ op.name = "_build_options_parameter"
    /\ op.v = StrV("a\"b")
    /\ ret = StrV("-sd \"a\"b\"")

-----------------------------------------------------------------------------
(* C7 *)

\* C7: when execute reaches subprocess.call it makes one call, with the
\* command <path> <options string> <mode> "<final statement>", mode being
\* -batch for batch and -r otherwise, and a list statement flattened with
\* ", "; path /bin/tool, nodesktop on, sd "/work", statement "run" and no
\* batch give /bin/tool -nodesktop -sd "/work" -r "run".
C7_Command ==
    (op.name = "execute" /\ called # <<>>) =>
        /\ Len(called) = 1
        /\ called[1].command =
               exe_path \o " " \o build_options_string(options).ret.s
               \o " " \o (IF op.batch THEN "-batch" ELSE "-r") \o " \""
               \o wrap_statement(FlatText(op.statement), op.try_catch, op.auto_exit)
               \o "\""
        /\ (/\ exe_path = "/bin/tool"
            /\ Stored(options, "nodesktop") = BoolV(TRUE)
            /\ Stored(options, "sd") = StrV("/work")
            /\ op.statement = StrV("run")
            /\ ~op.batch /\ ~op.try_catch /\ ~op.auto_exit) =>
               called[1].command = "/bin/tool -nodesktop -sd \"/work\" -r \"run\""

C7_Witness ==
    /\ op.name = "execute"
    /\ called # <<>>
    /\ called[1].command = "/bin/tool -nodesktop -sd \"/work\" -r \"run\""

-----------------------------------------------------------------------------
(* C8 *)

\* C8: a set_options call that raises InvalidOption leaves the stored
\* options and the executable path as they were before the call.
C8_NothingApplied ==
    [][(IsSetCall(op') /\ IsInvalidOption(err')) =>
          /\ options' = options
          /\ exe_path' = exe_path]_vars

\* the failed call named a valid flag with a value other than the stored one
C8_Witness ==
    /\ op.name = "set_options"
    /\ IsInvalidOption(err)
    /\ "nodesktop" \in Supplied(op)
    /\ Get(op.kw, "nodesktop") # Stored(options, "nodesktop")

-----------------------------------------------------------------------------
(* C9 *)

-----------------------------------------------------------------------------
(* C10 *)

\* C10: the keys of a constructed runner's options are the registry's keys
\* (a runner not yet constructed stores none), execute never raises the flag
\* builder's InvalidOption, and execute and set_exe_path leave the options
\* as they were.
C10_KeysInRegistry ==
    /\ (pc = "new" => options = <<>>)
    /\ [][/\ pc' = "ready" => Keys(options') = Keys(option_defaults)
          /\ op'.name = "execute" => ~IsBuilderInvalidOption(err')
          /\ op'.name \in {"execute", "set_exe_path"} => options' = options]_vars

\* an execute that reached subprocess.call with sd stored by an earlier call
C10_Witness ==
    /\ op.name = "execute"
    /\ err = NoErr
    /\ Stored(options, "sd") = StrV("/work")
    /\ KeySet(options) = Registry

====
